---------------------------- MODULE Spec2Model ----------------------------
(***************************************************************************)
(* A model of the two GRASS scripts of OSM-roads-comparison:               *)
(*   v.osm.precomp  buffer-based overlap statistics and the text report,   *)
(*   v.osm.preproc  angular-coefficient extraction with a pool of worker   *)
(*                  processes fed through a capacity-1 queue.              *)
(* The GIS workspace is a function from dataset names to their features.   *)
(* A dataset name is a tuple of the tokens that the scripts join with "_". *)
(***************************************************************************)
EXTENDS Integers, Sequences, FiniteSets, TLC

VARIABLES
    script,        \* which script runs: "precomp" or "preproc"
    options,       \* the parsed command line (grass.parser): strings
    ws,            \* the workspace: dataset name -> sequence of features
    ws0,           \* the workspace as the run found it
    issued,        \* the external commands issued so far: <<command, map>>
    now,           \* the clock that time.time() reads
    pc,            \* position of main
    msg,           \* message of grass.fatal / the exception / the print
    processid,     \* main's local variable processid
    ref,           \* main's local variable ref (a dataset name)
    osm,           \* main's local variable osm (a dataset name)
    s_ref,         \* length of the reference dataset (l_ref in preproc)
    s_osm,         \* length of the OSM dataset (l_osm in preproc)
    rows,          \* precomp: the statistics accumulated per buffer width
    calls,         \* precomp: the buffer widths GetStat was called with
    report,        \* the text file written by the run, <<>> when not written
    list_feature,  \* preproc: the reference categories to dispatch
    sent,          \* preproc: how many items main has put on q_in
    q_in,          \* preproc: the input queue, Queue(1)
    q_out,         \* preproc: the output queue, Queue()
    wpc,           \* preproc: position of each worker process
    wf,            \* preproc: the feature a worker holds
    joined,        \* preproc: how many workers main has joined
    processed,     \* preproc: the markers main took from q_out
    handled,       \* preproc: which worker took which feature, in order
    eaten          \* preproc: sentinels consumed per worker

vars == <<script, options, ws, ws0, issued, now, pc, msg, processid, ref, osm,
          s_ref, s_osm, rows, calls, report, list_feature, sent, q_in, q_out,
          wpc, wf, joined, processed, handled, eaten>>

mainVars == <<script, options, ws0>>
precompVars == <<rows, calls>>
poolVars == <<list_feature, sent, q_in, q_out, wpc, wf, joined, processed,
              handled, eaten>>

-----------------------------------------------------------------------------
(* Bounds of the model. *)
MaxRefFeat == 2     \* features of the reference dataset
MaxOsmFeat == 1     \* features of the OSM dataset
MaxBuffers == 2     \* entries of the buffers option
MaxProcs == 2       \* the nprocs option
MaxSub == 2         \* OSM sub-features inside one reference buffer

(* The values the inputs are drawn from. A feature is a line with a length, *)
(* a distance d to the other dataset, whether it lies in the clipping mask, *)
(* and the offsets dx, dy from its start point to its end point.           *)
FeatKinds ==
    { [len |-> 1, d |-> 0, inroi |-> TRUE,  dx |-> 1, dy |-> 0],
      [len |-> 2, d |-> 2, inroi |-> FALSE, dx |-> 1, dy |-> 1] }
Widths == {1, 2}
SubDirs == { <<1, 1>>, <<1, -1>>, <<0, 1>> }   \* <<dx, dy>> of a sub-feature
Thresholds == {0, 45}                          \* angle_thres, degrees

Unbound == "UNBOUND"      \* a local variable that was not assigned yet

WithCats(s) == [i \in 1..Len(s) |->
                  [cat |-> i, len |-> s[i].len, d |-> s[i].d,
                   inroi |-> s[i].inroi, dx |-> s[i].dx, dy |-> s[i].dy]]

SeqsUpTo(S, n) == UNION { [1..k -> S] : k \in 0..n }

Datasets(n) == { WithCats(s) : s \in SeqsUpTo(FeatKinds, n) }

-----------------------------------------------------------------------------
(* Python values whose type matters: the parser returns strings. *)
PyStr(v) == [type |-> "str", val |-> v]       \* the text that spells v
PyFloat(v) == [type |-> "float", val |-> v]

\* int(s), float(s) of a string
int(s) == s.val
float(s) == PyFloat(s.val)

-----------------------------------------------------------------------------
(* Dataset names and the workspace. *)
User(s) == <<s>>
Tmp(prefix, pid) == <<prefix, pid>>

Exists(w, name) == name \in DOMAIN w

Put(w, name, content) ==
    [n \in DOMAIN w \cup {name} |-> IF n = name THEN content ELSE w[n]]

Drop(w, names) == [n \in DOMAIN w \ names |-> w[n]]

\* the pattern occurs in the name: g.remove -r pattern=<id>, and the glob *<id>*
Contains(name, tok) == \E i \in 1..Len(name) : name[i] = tok

\* g.remove pattern=... : every dataset whose name matches
RemovePattern(w, tok) == Drop(w, { n \in DOMAIN w : Contains(n, tok) })

\* str(time.time()).replace(".", "_")
TimeStr(t) == "t" \o ToString(t)

\* grass.find_file(name, element='vector')['file']
find_file(w, name) == Exists(w, name)

RECURSIVE SumLen(_)
SumLen(s) == IF s = <<>> THEN 0 ELSE Head(s).len + SumLen(Tail(s))

\* length(data): v.info -t, and v.to.db option=length only when there are features
length(w, data) == IF Len(w[data]) > 0 THEN SumLen(w[data]) ELSE 0

\* a length() that queries the feature lengths without looking at v.info
lengthCmdsAlways(w, data) == { <<"v.info", data>>, <<"v.to.db", data>> }

lengthCmds(w, data) ==
    IF Len(w[data]) > 0 THEN { <<"v.info", data>>, <<"v.to.db", data>> }
    ELSE { <<"v.info", data>> }

\* v.overlay ainput=a binput=<mask> operator=and : the part of a inside the mask
ClipRoi(s) == LET In(f) == f.inroi IN SelectSeq(s, In)

\* v.buffer + v.overlay and / not: a feature of a lies inside the buffer of
\* width b around the dataset other when other has features and the feature's
\* distance to it is at most b
OverlayIn(a, other, b) ==
    LET In(f) == Len(other) > 0 /\ f.d <= b IN SelectSeq(a, In)
OverlayOut(a, other, b) ==
    LET Out(f) == ~(Len(other) > 0 /\ f.d <= b) IN SelectSeq(a, Out)

\* round(x / total * 100, 1), in tenths of a percent
Pct(x, total) == (2000 * x + total) \div (2 * total)

-----------------------------------------------------------------------------
(* The initial state: the command line and the workspace the run finds. *)
\* an input dataset: present with its features, or not in the workspace
Inputs(n) == { [there |-> TRUE, c |-> c] : c \in Datasets(n) }
             \cup { [there |-> FALSE, c |-> <<>>] }

InitWorkspace(refI, osmI, roiThere) ==
    LET w0 == [n \in {} |-> <<>>]
        w1 == IF refI.there THEN Put(w0, User("ref"), refI.c) ELSE w0
        w2 == IF osmI.there THEN Put(w1, User("osm"), osmI.c) ELSE w1
    IN IF roiThere THEN Put(w2, User("roi"), <<>>) ELSE w2

InitCommon ==
    /\ issued = {}
    /\ now = 1
    /\ pc = "check_osm"
    /\ msg = <<>>
    /\ processid = Unbound
    /\ ref = options.ref
    /\ osm = options.osm
    /\ s_ref = 0
    /\ s_osm = 0
    /\ rows = <<>>
    /\ calls = <<>>
    /\ report = <<>>
    /\ list_feature = <<>>
    /\ sent = 0
    /\ q_in = <<>>
    /\ q_out = <<>>
    /\ wpc = <<>>
    /\ wf = <<>>
    /\ joined = 0
    /\ processed = <<>>
    /\ handled = <<>>
    /\ eaten = <<>>

InitPrecomp ==
    /\ script = "precomp"
    /\ \E refC \in Inputs(MaxRefFeat),
          osmC \in Inputs(MaxOsmFeat),
          roi \in {<<"", FALSE>>, <<"roi", FALSE>>, <<"roi", TRUE>>},
          buffers \in SeqsUpTo(Widths, MaxBuffers) \ {<<>>} :
            /\ options = [osm |-> User("osm"), ref |-> User("ref"),
                          roi |-> roi[1], output |-> User("out"),
                          buffers |-> [i \in 1..Len(buffers) |-> PyStr(buffers[i])],
                          angle_thres |-> PyStr(0), nprocs |-> PyStr(1)]
            /\ ws = InitWorkspace(refC, osmC, roi[2])
    /\ ws0 = ws
    /\ InitCommon

-----------------------------------------------------------------------------
(* v.osm.precomp main *)

Fatal(m) == pc' = "fatal" /\ msg' = m

NotFound(name) == <<"Vector map <%s> not found", name>>

\* lines 239-240
PrecompCheckOsm ==
    /\ script = "precomp" /\ pc = "check_osm"
    /\ IF ~find_file(ws, osm) THEN Fatal(NotFound(osm))
       ELSE pc' = "check_ref" /\ msg' = msg
    /\ UNCHANGED <<mainVars, ws, issued, now, processid, ref, osm, s_ref,
                   s_osm, precompVars, report, poolVars>>

\* lines 242-243
PrecompCheckRef ==
    /\ script = "precomp" /\ pc = "check_ref"
    /\ IF ~find_file(ws, ref) THEN Fatal(NotFound(ref))
       ELSE pc' = "check_roi" /\ msg' = msg
    /\ UNCHANGED <<mainVars, ws, issued, now, processid, ref, osm, s_ref,
                   s_osm, precompVars, report, poolVars>>

\* a main that does not look for the roi mask
PrecompCheckRoiSkipped ==
    /\ script = "precomp" /\ pc = "check_roi"
    /\ pc' = "length" /\ msg' = msg
    /\ UNCHANGED <<mainVars, ws, issued, now, processid, ref, osm, s_ref,
                   s_osm, precompVars, report, poolVars>>

\* lines 245-247
PrecompCheckRoi ==
    /\ script = "precomp" /\ pc = "check_roi"
    /\ IF Len(options.roi) > 0 /\ ~find_file(ws, User(options.roi))
       THEN Fatal(NotFound(User(options.roi)))
       ELSE pc' = "length" /\ msg' = msg
    /\ UNCHANGED <<mainVars, ws, issued, now, processid, ref, osm, s_ref,
                   s_osm, precompVars, report, poolVars>>

\* lines 250-251
PrecompLength ==
    /\ script = "precomp" /\ pc = "length"
    /\ s_ref' = length(ws, ref)
    /\ s_osm' = length(ws, osm)
    /\ issued' = issued \cup lengthCmds(ws, ref) \cup lengthCmds(ws, osm)
    /\ pc' = "zero_ref"
    /\ UNCHANGED <<mainVars, ws, now, msg, processid, ref, osm, precompVars,
                   report, poolVars>>

\* "%s" % processid with processid not assigned yet raises UnboundLocalError;
\* otherwise g.remove -r pattern=processid and grass.fatal
PrecompAbort(m) ==
    IF processid = Unbound
    THEN /\ pc' = "raised"
         /\ msg' = <<"UnboundLocalError">>
         /\ UNCHANGED <<ws, issued>>
    ELSE /\ ws' = RemovePattern(ws, processid)
         /\ issued' = issued \cup {<<"g.remove", <<processid>>>>}
         /\ Fatal(m)

\* lines 253-255
PrecompZeroRef ==
    /\ script = "precomp" /\ pc = "zero_ref"
    /\ IF s_ref = 0 THEN PrecompAbort(<<"No reference data for comparison">>)
       ELSE pc' = "zero_osm" /\ UNCHANGED <<ws, issued, msg>>
    /\ UNCHANGED <<mainVars, now, processid, ref, osm, s_ref, s_osm,
                   precompVars, report, poolVars>>

\* lines 257-259
PrecompZeroOsm ==
    /\ script = "precomp" /\ pc = "zero_osm"
    /\ IF s_osm = 0 THEN PrecompAbort(<<"No OSM data for comparison">>)
       ELSE pc' = "mask" /\ UNCHANGED <<ws, issued, msg>>
    /\ UNCHANGED <<mainVars, now, processid, ref, osm, s_ref, s_osm,
                   precompVars, report, poolVars>>

\* lines 264-274: the temporary names and the clipping mask
PrecompMask ==
    /\ script = "precomp" /\ pc = "mask"
    /\ processid' = TimeStr(now)
    /\ now' = now + 1
    /\ IF Len(options.roi) > 0
       THEN /\ ws' = Put(Put(ws, Tmp("ref_roi", processid'), ClipRoi(ws[ref])),
                         Tmp("osm_roi", processid'), ClipRoi(ws[osm]))
            /\ issued' = issued \cup {<<"v.overlay", Tmp("ref_roi", processid')>>,
                                      <<"v.overlay", Tmp("osm_roi", processid')>>}
            /\ ref' = Tmp("ref_roi", processid')
            /\ osm' = Tmp("osm_roi", processid')
       ELSE UNCHANGED <<ws, issued, ref, osm>>
    /\ pc' = "stat"
    /\ UNCHANGED <<mainVars, msg, s_ref, s_osm, precompVars, report, poolVars>>

\* GetStat(osm, ref, buff), lines 67-93: the workspace before g.remove
GetStatTemps(w, o, r, b, pid) ==
    LET w1 == Put(w, Tmp("osm_buffer", pid), <<>>)
        w2 == Put(w1, Tmp("ref_in", pid), OverlayIn(w[r], w[o], b))
        w3 == Put(w2, Tmp("ref_out", pid), OverlayOut(w[r], w[o], b))
        w4 == Put(w3, Tmp("ref_buffer", pid), <<>>)
        w5 == Put(w4, Tmp("osm_in", pid), OverlayIn(w[o], w[r], b))
    IN Put(w5, Tmp("osm_out", pid), OverlayOut(w[o], w[r], b))

GetStatCmds(w, pid) ==
    {<<"v.buffer", Tmp("osm_buffer", pid)>>, <<"v.buffer", Tmp("ref_buffer", pid)>>,
     <<"v.overlay", Tmp("ref_in", pid)>>, <<"v.overlay", Tmp("ref_out", pid)>>,
     <<"v.overlay", Tmp("osm_in", pid)>>, <<"v.overlay", Tmp("osm_out", pid)>>,
     <<"g.remove", <<pid>>>>}
    \cup lengthCmds(w, Tmp("ref_in", pid)) \cup lengthCmds(w, Tmp("ref_out", pid))
    \cup lengthCmds(w, Tmp("osm_in", pid)) \cup lengthCmds(w, Tmp("osm_out", pid))

\* line 91
GetStatRemove(w, pid) == RemovePattern(w, pid)

\* the tuple GetStat returns, line 93
GetStatResult(w, pid) ==
    [s_ref_in |-> length(w, Tmp("ref_in", pid)),
     s_ref_out |-> length(w, Tmp("ref_out", pid)),
     s_osm_in |-> length(w, Tmp("osm_in", pid)),
     s_osm_out |-> length(w, Tmp("osm_out", pid))]

\* map(float, buff.split(",")), line 277
list_buff == [i \in 1..Len(options.buffers) |-> float(options.buffers[i])]

\* which entry of list_buff the loop of line 289 takes next
NextBuff(done) == Len(done) + 1

\* lines 291-298: what one pass of the loop appends to the eight lists
StatRow(b, st, tot_osm, tot_ref) ==
    [buff |-> b,
     osm_in |-> st.s_osm_in,   var_osm_in |-> Pct(st.s_osm_in, tot_osm),
     osm_out |-> st.s_osm_out, var_osm_out |-> Pct(st.s_osm_out, tot_osm),
     ref_in |-> st.s_ref_in,   var_ref_in |-> Pct(st.s_ref_in, tot_ref),
     ref_out |-> st.s_ref_out, var_ref_out |-> Pct(st.s_ref_out, tot_ref)]

\* lines 289-298: one pass of the loop over list_buff
PrecompGetStat ==
    /\ script = "precomp" /\ pc = "stat"
    /\ NextBuff(rows) <= Len(list_buff)
    /\ LET b == list_buff[NextBuff(rows)]
           pid == TimeStr(now)
           w == GetStatTemps(ws, osm, ref, b.val, pid)
       IN /\ ws' = GetStatRemove(w, pid)
          /\ issued' = issued \cup GetStatCmds(w, pid)
          /\ calls' = Append(calls, b)
          /\ rows' = Append(rows, StatRow(b, GetStatResult(w, pid), s_osm, s_ref))
    /\ now' = now + 1
    /\ UNCHANGED <<mainVars, pc, msg, processid, ref, osm, s_ref, s_osm,
                   report, poolVars>>

\* line 308: one row of the table, nine fields
RowLine(r) == <<r.buff, r.osm_in, r.var_osm_in, r.osm_out, r.var_osm_out,
                r.ref_in, r.var_ref_in, r.ref_out, r.var_ref_out>>

Header == <<"BUFFER(m)", "OSM_IN(m)", "OSM_IN(%)", "OSM_OUT(m)", "OSM_OUT(%)",
            "REF_IN(m)", "REF_IN(%)", "REF_OUT(m)", "REF_OUT(%)">>

\* a report without the empty line between the totals and the table
ReportLinesNoBlank(rs) ==
    << <<"REF length", s_ref>>,
       <<"OSM length", s_osm>>,
       <<"REF-OSM difference", s_ref - s_osm, Pct(s_ref - s_osm, s_ref)>>,
       Header >>
    \o [i \in 1..Len(list_buff) |-> RowLine(rs[i])]

\* lines 301-309: the lines written to the output file
ReportLines(rs) ==
    << <<"REF length", s_ref>>,
       <<"OSM length", s_osm>>,
       <<"REF-OSM difference", s_ref - s_osm, Pct(s_ref - s_osm, s_ref)>>,
       <<>>,
       Header >>
    \o [i \in 1..Len(list_buff) |-> RowLine(rs[i])]

\* lines 300-309
PrecompReport ==
    /\ script = "precomp" /\ pc = "stat"
    /\ NextBuff(rows) > Len(list_buff)
    /\ report' = ReportLines(rows)
    /\ pc' = "remove"
    /\ UNCHANGED <<mainVars, ws, issued, now, msg, processid, ref, osm, s_ref,
                   s_osm, precompVars, poolVars>>

\* line 312
PrecompRemove ==
    /\ script = "precomp" /\ pc = "remove"
    /\ ws' = RemovePattern(ws, processid)
    /\ issued' = issued \cup {<<"g.remove", <<processid>>>>}
    /\ pc' = "done"
    /\ UNCHANGED <<mainVars, now, msg, processid, ref, osm, s_ref, s_osm,
                   precompVars, report, poolVars>>

-----------------------------------------------------------------------------
(* v.osm.preproc: the angular coefficient and the comparison *)

\* a vector dataset the run finds in the workspace and did not make: its
\* name starts with "patch" (patch_old), its one line is in no input dataset
ForeignPatch == <<"patch", "old">>
ForeignLines == << [cat |-> 1, len |-> 3, d |-> 0, inroi |-> TRUE,
                    dx |-> 1, dy |-> 0] >>

InitPreproc ==
    /\ script = "preproc"
    /\ \E refC \in Inputs(MaxRefFeat),
          osmC \in Inputs(MaxOsmFeat),
          thres \in Thresholds,
          nprocs \in 1..MaxProcs,
          foreign \in BOOLEAN :
            /\ options = [osm |-> User("osm"), ref |-> User("ref"),
                          roi |-> "", output |-> User("out"), buffers |-> <<>>,
                          angle_thres |-> PyStr(thres), nprocs |-> PyStr(nprocs)]
            /\ ws = IF foreign
                    THEN Put(InitWorkspace(refC, osmC, FALSE),
                             ForeignPatch, ForeignLines)
                    ELSE InitWorkspace(refC, osmC, FALSE)
    /\ ws0 = ws
    /\ InitCommon

\* the stand-in of line 111 and line 113 for a vertical or unreadable line
Big == 1000000000

\* GetCoeff(vect), lines 98-114. The second line of v.to.db's output is the
\* first feature; without one the split raises and the except clause answers.
\* The inputs have dx in {0, 1}, so the quotient is exact.
GetCoeff(content) ==
    IF Len(content) = 0 THEN Big
    ELSE IF content[1].dx # 0 THEN content[1].dy \div content[1].dx
    ELSE Big

\* Numbers as c2 * Big^2 + c1 * Big + c0 with small c0, c1: the products of
\* line 162 exceed the range of 32-bit integers.
Hi(m) == IF m >= Big THEN 1 ELSE 0
Lo(m) == m - Hi(m) * Big
Poly(c2, c1, c0) == <<c2, c1, c0>>
IsZero(p) == p = <<0, 0, 0>>
Negative(p) == \/ p[1] < 0
               \/ p[1] = 0 /\ p[2] < 0
               \/ p[1] = 0 /\ p[2] = 0 /\ p[3] < 0
Abs(p) == IF Negative(p) THEN <<-p[1], -p[2], -p[3]>> ELSE p
PolyLE(p, q) == \/ p[1] < q[1]
                \/ p[1] = q[1] /\ p[2] < q[2]
                \/ p[1] = q[1] /\ p[2] = q[2] /\ p[3] <= q[3]

\* m_ref - m_osm and 1 + m_ref * m_osm of line 162
AngleNum(m_ref, m_osm) == Poly(0, Hi(m_ref) - Hi(m_osm), Lo(m_ref) - Lo(m_osm))
AngleDen(m_ref, m_osm) ==
    Poly(Hi(m_ref) * Hi(m_osm),
         Hi(m_ref) * Lo(m_osm) + Hi(m_osm) * Lo(m_ref),
         1 + Lo(m_ref) * Lo(m_osm))

\* the division of line 162 raises ZeroDivisionError
AngleRaises(m_ref, m_osm) == IsZero(AngleDen(m_ref, m_osm))

\* new_angle of line 162, a float: kept as the tangent |num| / |den|
new_angle(m_ref, m_osm) ==
    [type |-> "float", num |-> Abs(AngleNum(m_ref, m_osm)),
     den |-> Abs(AngleDen(m_ref, m_osm))]

\* degrees(atan(num / den)) <= deg, for the thresholds of the model
DegreesLE(a, deg) ==
    IF deg >= 90 THEN TRUE
    ELSE IF deg = 45 THEN PolyLE(a.num, a.den)
    ELSE IF deg = 0 THEN IsZero(a.num)
    ELSE FALSE

\* x <= y of Python 2, line 163: two numbers compare by value; a number and
\* a string compare by type, and a number is smaller than every string
PyLE(x, y) ==
    IF x.type = "float" /\ y.type = "float" THEN DegreesLE(x, y.val)
    ELSE IF x.type = "float" /\ y.type = "str" THEN TRUE
    ELSE FALSE

\* the names AngulatComparison builds, lines 119-125, 155, 164-165
Cat(c) == ToString(c)
fdataName(pid, f) == <<"fdata", pid, Cat(f)>>
fbufferName(pid, f) == <<"fbuffer", pid, Cat(f)>>
odataName(pid, f) == <<"odata", pid, Cat(f)>>
subName(pid, f, sf) == <<"odata", pid, Cat(f), Cat(sf)>>
patchName(pid, f, z) == <<"patch", pid, Cat(f), Cat(z)>>
patch00(pid) == <<"patch", pid, "0", "0">>

\* v.extract where cat=f
Extract(content, f) == LET Is(x) == x.cat = f IN SelectSeq(content, Is)

\* lines 126-142: the datasets made before the comparison; subs is what
\* v.overlay finds of the OSM dataset inside the buffer of feature f
AngulatBefore(w, f, pid, r, subs) ==
    LET w1 == Put(w, fdataName(pid, f), Extract(w[r], f))
        w2 == Put(w1, patchName(pid, f, 0), w1[patch00(pid)])
        w3 == Put(w2, fbufferName(pid, f), <<>>)
    IN Put(w3, odataName(pid, f), subs)

\* lines 154-177: the loop over list_subfeature from entry k on, z as line 174
\* left it. Answers the workspace and whether line 162 raised.
RECURSIVE AngulatLoop(_, _, _, _, _, _, _)
AngulatLoop(w, f, pid, m_ref, angle_thres, k, z) ==
    LET subs == w[odataName(pid, f)] IN
    IF k > Len(subs) THEN [ws |-> w, raised |-> FALSE]
    ELSE
      LET sf == subs[k].cat
          w1 == Put(w, subName(pid, f, sf), Extract(subs, sf))
          m_osm == GetCoeff(w1[subName(pid, f, sf)])
      IN IF AngleRaises(m_ref, m_osm) THEN [ws |-> w1, raised |-> TRUE]
         ELSE IF PyLE(new_angle(m_ref, m_osm), angle_thres)
         THEN LET w2 == Put(w1, patchName(pid, f, sf),
                            w1[patchName(pid, f, z)] \o w1[subName(pid, f, sf)])
                  w3 == Drop(w2, {patchName(pid, f, z), subName(pid, f, sf)})
              IN AngulatLoop(w3, f, pid, m_ref, angle_thres, k + 1, sf)
         ELSE AngulatLoop(Drop(w1, {subName(pid, f, sf)}), f, pid, m_ref,
                          angle_thres, k + 1, z)

\* a comparison that forgets the g.remove of lines 178-179
AngulatComparisonKeepsTemps(w, f, pid, r, subs, angle_thres) ==
    LET w4 == AngulatBefore(w, f, pid, r, subs)
        temps == {fdataName(pid, f), fbufferName(pid, f), odataName(pid, f)}
    IN IF Len(subs) = 0 THEN [ws |-> Drop(w4, temps), raised |-> FALSE]
       ELSE AngulatLoop(w4, f, pid, GetCoeff(w4[fdataName(pid, f)]),
                        angle_thres, 1, 0)

\* AngulatComparison(f, processid, ref, osm, bf, list_lines, angle_thres),
\* lines 117-180
AngulatComparison(w, f, pid, r, subs, angle_thres) ==
    LET w4 == AngulatBefore(w, f, pid, r, subs)
        temps == {fdataName(pid, f), fbufferName(pid, f), odataName(pid, f)}
    IN IF Len(subs) = 0 THEN [ws |-> Drop(w4, temps), raised |-> FALSE]
       ELSE LET res == AngulatLoop(w4, f, pid, GetCoeff(w4[fdataName(pid, f)]),
                                   angle_thres, 1, 0)
            IN IF res.raised THEN res
               ELSE [ws |-> Drop(res.ws, temps), raised |-> FALSE]

AngulatCmds(pid, f) ==
    {<<"v.extract", fdataName(pid, f)>>, <<"g.copy", patchName(pid, f, 0)>>,
     <<"v.buffer", fbufferName(pid, f)>>, <<"v.overlay", odataName(pid, f)>>}

\* what v.overlay can find inside one buffer: up to MaxSub pieces of OSM lines
SubFeature(i, dir) == [cat |-> i, len |-> 1, d |-> 0, inroi |-> TRUE,
                       dx |-> dir[1], dy |-> dir[2]]
SubLists == { [i \in 1..Len(s) |-> SubFeature(i, s[i])] :
              s \in SeqsUpTo(SubDirs, MaxSub) }


-----------------------------------------------------------------------------
(* v.osm.preproc main, up to the worker pool *)

\* lines 204-205
PreprocCheckOsm ==
    /\ script = "preproc" /\ pc = "check_osm"
    /\ IF ~find_file(ws, osm) THEN Fatal(NotFound(osm))
       ELSE pc' = "check_ref" /\ msg' = msg
    /\ UNCHANGED <<mainVars, ws, issued, now, processid, ref, osm, s_ref,
                   s_osm, precompVars, report, poolVars>>

\* lines 207-208
PreprocCheckRef ==
    /\ script = "preproc" /\ pc = "check_ref"
    /\ IF ~find_file(ws, ref) THEN Fatal(NotFound(ref))
       ELSE pc' = "length" /\ msg' = msg
    /\ UNCHANGED <<mainVars, ws, issued, now, processid, ref, osm, s_ref,
                   s_osm, precompVars, report, poolVars>>

\* lines 210-223: the temporary names, then the two lengths
PreprocLength ==
    /\ script = "preproc" /\ pc = "length"
    /\ processid' = TimeStr(now)
    /\ now' = now + 1
    /\ s_osm' = length(ws, osm)
    /\ s_ref' = length(ws, ref)
    /\ issued' = issued \cup lengthCmds(ws, osm) \cup lengthCmds(ws, ref)
    /\ pc' = "zero_ref"
    /\ UNCHANGED <<mainVars, ws, msg, ref, osm, precompVars, report, poolVars>>

\* g.remove -r pattern=processid, then grass.fatal
PreprocAbort(m) ==
    /\ ws' = RemovePattern(ws, processid)
    /\ issued' = issued \cup {<<"g.remove", <<processid>>>>}
    /\ Fatal(m)

\* lines 225-228
PreprocZeroRef ==
    /\ script = "preproc" /\ pc = "zero_ref"
    /\ IF s_ref = 0 THEN PreprocAbort(<<"No reference data for comparison">>)
       ELSE pc' = "zero_osm" /\ UNCHANGED <<ws, issued, msg>>
    /\ UNCHANGED <<mainVars, now, processid, ref, osm, s_ref, s_osm,
                   precompVars, report, poolVars>>

\* lines 230-233
PreprocZeroOsm ==
    /\ script = "preproc" /\ pc = "zero_osm"
    /\ IF s_osm = 0 THEN PreprocAbort(<<"No OSM data for comparison">>)
       ELSE pc' = "prepare" /\ UNCHANGED <<ws, issued, msg>>
    /\ UNCHANGED <<mainVars, now, processid, ref, osm, s_ref, s_osm,
                   precompVars, report, poolVars>>

\* lines 236-287: generalize (when douglas_thres is given), split both
\* datasets and rebuild their polylines under the split names, compute the
\* degree datasets, create the empty patch_<id>_0_0. The lines of the inputs
\* have two vertices, so splitting and generalizing keep the features.
Prepared(w, pid, r, o, doug) ==
    LET w1 == IF doug THEN Put(w, Tmp("ref_gen", pid), w[r]) ELSE w
        r1 == IF doug THEN Tmp("ref_gen", pid) ELSE r
        w2 == Put(w1, Tmp("ref_split", pid), w1[r1])
        w3 == Put(w2, <<"new", "ref_split", pid>>, w2[Tmp("ref_split", pid)])
        w4 == Drop(w3, {Tmp("ref_split", pid)})
        w5 == Put(Drop(w4, {<<"new", "ref_split", pid>>}),
                  Tmp("ref_split", pid), w4[<<"new", "ref_split", pid>>])
        w6 == Put(w5, Tmp("osm_split", pid), w5[o])
        w7 == Put(w6, <<"new", "osm_split", pid>>, w6[Tmp("osm_split", pid)])
        w8 == Drop(w7, {Tmp("osm_split", pid)})
        w9 == Put(Drop(w8, {<<"new", "osm_split", pid>>}),
                  Tmp("osm_split", pid), w8[<<"new", "osm_split", pid>>])
        w10 == Put(w9, Tmp("deg_points", pid), <<>>)
        w11 == Put(w10, Tmp("degmin_points", pid), <<>>)
        w12 == Put(w11, Tmp("ref_degmin", pid), w11[Tmp("ref_split", pid)])
    IN Put(w12, patch00(pid), <<>>)

PreparedCmds(pid, doug) ==
    (IF doug THEN {<<"v.generalize", Tmp("ref_gen", pid)>>} ELSE {})
    \cup {<<"v.split", Tmp("ref_split", pid)>>, <<"v.split", Tmp("osm_split", pid)>>,
          <<"v.build.polylines", <<"new", "ref_split", pid>>>>,
          <<"v.build.polylines", <<"new", "osm_split", pid>>>>,
          <<"v.net.centrality", Tmp("deg_points", pid)>>,
          <<"v.extract", Tmp("degmin_points", pid)>>,
          <<"v.select", Tmp("ref_degmin", pid)>>,
          <<"v.edit", patch00(pid)>>}

\* v.db.select columns=cat, lines 289-290
Cats(content) == [i \in 1..Len(content) |-> content[i].cat]

\* lines 236-295; douglas_thres is read here and nowhere else
PreprocPrepare ==
    /\ script = "preproc" /\ pc = "prepare"
    /\ \E doug \in BOOLEAN :
          /\ ws' = Prepared(ws, processid, ref, osm, doug)
          /\ issued' = issued \cup PreparedCmds(processid, doug)
    /\ ref' = Tmp("ref_split", processid)
    /\ osm' = Tmp("osm_split", processid)
    /\ list_feature' = Cats(ws'[ref'])
    /\ pc' = "start"
    /\ UNCHANGED <<mainVars, now, msg, processid, s_ref, s_osm, precompVars,
                   report, sent, q_in, q_out, wpc, wf, joined, processed,
                   handled, eaten>>

-----------------------------------------------------------------------------
(* The worker pool, lines 183-190 and 297-315 *)

nproc == int(options.nprocs)
Procs == 1..nproc

\* an item of q_in: its first field is the feature, or None in a sentinel
Task(f) == [f |-> <<f>>]
Sentinel == [f |-> <<>>]
IsNone(item) == item.f = <<>>

\* Queue(1): put blocks while the queue is full
QueueSize == 1
CanPut(q) == Len(q) < QueueSize

\* lines 298-304
PreprocStart ==
    /\ script = "preproc" /\ pc = "start"
    /\ q_in' = <<>>
    /\ q_out' = <<>>
    /\ wpc' = [w \in Procs |-> "get"]
    /\ wf' = [w \in Procs |-> <<>>]
    /\ eaten' = [w \in Procs |-> 0]
    /\ handled' = [i \in 1..Len(list_feature) |-> 0]
    /\ pc' = "put_features"
    /\ UNCHANGED <<mainVars, ws, issued, now, msg, processid, ref, osm, s_ref,
                   s_osm, precompVars, report, list_feature, sent, joined,
                   processed>>

\* lines 306-307: one put of the list comprehension
PreprocPutFeature ==
    /\ script = "preproc" /\ pc = "put_features"
    /\ sent < Len(list_feature)
    /\ CanPut(q_in)
    /\ q_in' = Append(q_in, Task(list_feature[sent + 1]))
    /\ sent' = sent + 1
    /\ UNCHANGED <<mainVars, ws, issued, now, pc, msg, processid, ref, osm,
                   s_ref, s_osm, precompVars, report, list_feature, q_out, wpc,
                   wf, joined, processed, handled, eaten>>

\* the first comprehension is finished
PreprocFeaturesPut ==
    /\ script = "preproc" /\ pc = "put_features"
    /\ sent = Len(list_feature)
    /\ pc' = "put_sentinels"
    /\ UNCHANGED <<mainVars, ws, issued, now, msg, processid, ref, osm,
                   s_ref, s_osm, precompVars, report, poolVars>>

\* how many sentinels line 309 puts
SentinelCount == nproc

\* line 309: one put of the list comprehension
PreprocPutSentinel ==
    /\ script = "preproc" /\ pc = "put_sentinels"
    /\ sent < Len(list_feature) + SentinelCount
    /\ CanPut(q_in)
    /\ q_in' = Append(q_in, Sentinel)
    /\ sent' = sent + 1
    /\ UNCHANGED <<mainVars, ws, issued, now, pc, msg, processid, ref, osm,
                   s_ref, s_osm, precompVars, report, list_feature, q_out, wpc,
                   wf, joined, processed, handled, eaten>>

PreprocSentinelsPut ==
    /\ script = "preproc" /\ pc = "put_sentinels"
    /\ sent = Len(list_feature) + SentinelCount
    /\ pc' = "join"
    /\ UNCHANGED <<mainVars, ws, issued, now, msg, processid, ref, osm,
                   s_ref, s_osm, precompVars, report, poolVars>>

\* a process has terminated: it left its loop, or an exception ended it
Terminated(w) == wpc[w] \in {"exit", "dead"}

\* line 310: proc.join() of the next process returns once it has terminated
PreprocJoin ==
    /\ script = "preproc" /\ pc = "join"
    /\ joined < nproc
    /\ Terminated(joined + 1)
    /\ joined' = joined + 1
    /\ UNCHANGED <<mainVars, ws, issued, now, pc, msg, processid, ref, osm,
                   s_ref, s_osm, precompVars, report, list_feature, sent, q_in,
                   q_out, wpc, wf, processed, handled, eaten>>

PreprocJoined ==
    /\ script = "preproc" /\ pc = "join"
    /\ joined = nproc
    /\ pc' = "collect"
    /\ UNCHANGED <<mainVars, ws, issued, now, msg, processid, ref, osm,
                   s_ref, s_osm, precompVars, report, poolVars>>

\* how many markers line 311 takes: one q_out.get() for each of procs
CollectCount == nproc

\* line 311: one q_out.get() of the list comprehension; get blocks while the
\* queue is empty
PreprocCollect ==
    /\ script = "preproc" /\ pc = "collect"
    /\ Len(processed) < CollectCount
    /\ q_out # <<>>
    /\ processed' = Append(processed, Head(q_out))
    /\ q_out' = Tail(q_out)
    /\ UNCHANGED <<mainVars, ws, issued, now, pc, msg, processid, ref, osm,
                   s_ref, s_osm, precompVars, report, list_feature, sent, q_in,
                   wpc, wf, joined, handled, eaten>>

\* the truth value of a marker: AngulatComparison returns the integer 0
Truthy(p) == p # 0

\* line 312
errors == SelectSeq(processed, Truthy)

\* lines 312-315
PreprocErrors ==
    /\ script = "preproc" /\ pc = "collect"
    /\ Len(processed) = CollectCount
    /\ IF errors # <<>>
       THEN pc' = "returned" /\ msg' = <<"Some errors occurred during analysis">>
       ELSE pc' = "clean" /\ msg' = msg
    /\ UNCHANGED <<mainVars, ws, issued, now, processid, ref, osm,
                   s_ref, s_osm, precompVars, report, poolVars>>

\* lines 185-188: q_in.get() and the test for the sentinel
WorkerGet(w) ==
    /\ script = "preproc" /\ wpc[w] = "get"
    /\ q_in # <<>>
    /\ q_in' = Tail(q_in)
    /\ IF IsNone(Head(q_in))
       THEN /\ wpc' = [wpc EXCEPT ![w] = "exit"]
            /\ eaten' = [eaten EXCEPT ![w] = @ + 1]
            /\ wf' = wf
       ELSE /\ wpc' = [wpc EXCEPT ![w] = "run"]
            /\ wf' = [wf EXCEPT ![w] = Head(q_in).f]
            /\ eaten' = eaten
    /\ UNCHANGED <<mainVars, ws, issued, now, pc, msg, processid, ref, osm,
                   s_ref, s_osm, precompVars, report, list_feature, sent,
                   q_out, joined, processed, handled>>

\* the value AngulatComparison returns, line 180
ReturnValue == 0

\* line 189: func(...) and q_out.put of what it returns. An exception that
\* func raises is caught nowhere in fun and ends the worker process.
WorkerRun(w) ==
    /\ script = "preproc" /\ wpc[w] = "run"
    /\ \E subs \in SubLists :
         LET f == wf[w][1]
             res == AngulatComparison(ws, f, processid, ref, subs,
                                      options.angle_thres)
         IN /\ ws' = res.ws
            /\ issued' = issued \cup AngulatCmds(processid, f)
            /\ handled' = [handled EXCEPT ![f] = @ + 1]
            /\ IF res.raised
               THEN /\ wpc' = [wpc EXCEPT ![w] = "dead"]
                    /\ q_out' = q_out
               ELSE /\ wpc' = [wpc EXCEPT ![w] = "get"]
                    /\ q_out' = Append(q_out, ReturnValue)
    /\ wf' = [wf EXCEPT ![w] = <<>>]
    /\ UNCHANGED <<mainVars, now, pc, msg, processid, ref, osm, s_ref, s_osm,
                   precompVars, report, list_feature, sent, q_in, joined,
                   processed, eaten>>

-----------------------------------------------------------------------------
(* v.osm.preproc main, after the worker pool *)

\* g.list type=vect pattern=patch*, lines 320-321
ListPatch(w) == { n \in DOMAIN w : n[1] = "patch" }

\* v.patch input=<names>: the features of all of them
RECURSIVE PatchAll(_, _)
PatchAll(w, names) ==
    IF names = {} THEN <<>>
    ELSE LET n == CHOOSE x \in names : TRUE
         IN w[n] \o PatchAll(w, names \ {n})

finalName(pid) == <<"patch", pid, "final">>

\* lines 320-329: the final patch, its buffer, and the output map: the lines
\* of the original OSM dataset inside that buffer are the merged pieces
Cleaned(w, pid, out) ==
    LET w1 == Put(w, finalName(pid), PatchAll(w, ListPatch(w)))
        w2 == Put(w1, Tmp("outbuff", pid), <<>>)
    IN Put(w2, out, w2[finalName(pid)])

\* lines 317-329
PreprocClean ==
    /\ script = "preproc" /\ pc = "clean"
    /\ ws' = Cleaned(ws, processid, options.output)
    /\ issued' = issued \cup {<<"g.list", <<"patch*">>>>,
                              <<"v.patch", finalName(processid)>>,
                              <<"v.buffer", Tmp("outbuff", processid)>>,
                              <<"v.overlay", options.output>>}
    /\ pc' = "delete"
    /\ UNCHANGED <<mainVars, now, msg, processid, ref, osm, s_ref, s_osm,
                   precompVars, report, poolVars>>

\* lines 332-334: the names removed one by one
DeleteNames(pid) ==
    {Tmp("deg_points", pid), Tmp("ref_degmin", pid), Tmp("degmin_points", pid),
     Tmp("ref_gen", pid), Tmp("ref_split", pid), Tmp("osm_split", pid),
     Tmp("outbuff", pid)}

\* a clean-up that removes the listed names and forgets the pattern
DeletedNamesOnly(w, pid) == Drop(w, DeleteNames(pid))

\* lines 332-337
Deleted(w, pid) == RemovePattern(Drop(w, DeleteNames(pid)), pid)

PreprocDelete ==
    /\ script = "preproc" /\ pc = "delete"
    /\ ws' = Deleted(ws, processid)
    /\ issued' = issued \cup {<<"g.remove", <<processid>>>>}
    /\ pc' = "stats"
    /\ UNCHANGED <<mainVars, now, msg, processid, ref, osm, s_ref, s_osm,
                   precompVars, report, poolVars>>

\* lines 349-353
StatLines(l_osm_proc) ==
    << <<"REF dataset length", s_ref>>,
       <<"Original OSM dataset length", s_osm>>,
       <<"Processed OSM dataset length", l_osm_proc>>,
       <<"Difference OSM", s_osm - l_osm_proc, Pct(s_osm - l_osm_proc, s_osm)>>,
       <<"Difference REF", s_ref - l_osm_proc, Pct(s_ref - l_osm_proc, s_ref)>> >>

\* lines 339-363; out_file is read here and nowhere else
PreprocStats ==
    /\ script = "preproc" /\ pc = "stats"
    /\ \E out_file \in {"", "stats"} :
          report' = IF Len(out_file) > 0
                    THEN StatLines(length(ws, options.output)) ELSE <<>>
    /\ issued' = issued \cup lengthCmds(ws, options.output)
    /\ pc' = "done"
    /\ UNCHANGED <<mainVars, ws, now, msg, processid, ref, osm, s_ref, s_osm,
                   precompVars, poolVars>>

-----------------------------------------------------------------------------
Init == InitPrecomp \/ InitPreproc

NextPrecomp ==
    \/ PrecompCheckOsm
    \/ PrecompCheckRef
    \/ PrecompCheckRoi
    \/ PrecompLength
    \/ PrecompZeroRef
    \/ PrecompZeroOsm
    \/ PrecompMask
    \/ PrecompGetStat
    \/ PrecompReport
    \/ PrecompRemove

NextPreproc ==
    \/ PreprocCheckOsm
    \/ PreprocCheckRef
    \/ PreprocLength
    \/ PreprocZeroRef
    \/ PreprocZeroOsm
    \/ PreprocPrepare
    \/ PreprocStart
    \/ PreprocPutFeature
    \/ PreprocFeaturesPut
    \/ PreprocPutSentinel
    \/ PreprocSentinelsPut
    \/ PreprocJoin
    \/ PreprocJoined
    \/ PreprocCollect
    \/ PreprocErrors
    \/ \E w \in DOMAIN wpc : WorkerGet(w)
    \/ \E w \in DOMAIN wpc : WorkerRun(w)
    \/ PreprocClean
    \/ PreprocDelete
    \/ PreprocStats

Next == NextPrecomp \/ NextPreproc

\* both scripts
Spec == Init /\ [][Next]_vars

\* v.osm.precomp alone
SpecPrecomp == InitPrecomp /\ [][NextPrecomp]_vars

\* v.osm.preproc alone
SpecPreproc == InitPreproc /\ [][NextPreproc]_vars

\* both mains from their first line to the zero-length checks. A run that
\* grass.fatal or an exception ended there takes no further step under Next
\* either, so the runs that end in these lines are the same under Spec.
NextEntry ==
    \/ PrecompCheckOsm
    \/ PrecompCheckRef
    \/ PrecompCheckRoi
    \/ PrecompLength
    \/ PrecompZeroRef
    \/ PrecompZeroOsm
    \/ PreprocCheckOsm
    \/ PreprocCheckRef
    \/ PreprocLength
    \/ PreprocZeroRef
    \/ PreprocZeroOsm

SpecEntry == Init /\ [][NextEntry]_vars

-----------------------------------------------------------------------------
(* Properties *)

Terminal == pc \in {"fatal", "raised", "returned", "done"}

InFanOut == script = "preproc"
            /\ pc \in {"put_features", "put_sentinels", "join", "collect"}

NoWorkerDied == \A w \in DOMAIN wpc : wpc[w] # "dead"

\* C1: the fan-out always terminates: for every nprocs >= 1 and every list of
\* feature ids, also one shorter than nprocs, main is never blocked for good
\* between the first put and the cleaning step. In a run where every call of
\* AngulatComparison returns, some process can take a step in every state of
\* the fan-out.
C1_FanOutNeverBlocks == (InFanOut /\ NoWorkerDied) => ENABLED Next

\* main is about to evaluate line 312
AtErrorsCheck == script = "preproc" /\ pc = "collect"
                 /\ Len(processed) = CollectCount

\* C2: when main evaluates the errors check it has taken exactly one marker
\* for every dispatched feature id, and no marker is left in the output queue.
C2_AllMarkersCollected ==
    (AtErrorsCheck /\ NoWorkerDied) =>
        /\ Len(processed) = Len(list_feature)
        /\ q_out = <<>>

\* the calls of AngulatComparison that raised: each ended one worker
Failures == Cardinality({ w \in DOMAIN wpc : wpc[w] = "dead" })
FailureMarkers == Len(SelectSeq(q_out, Truthy)) + Len(SelectSeq(processed, Truthy))

\* C3: every failure inside a worker puts a truthy marker on the output
\* queue, and after a failure main takes the "Some errors occurred" branch
\* and does not build the output map.
C3_FailureIsMarked ==
    script = "preproc" =>
        /\ FailureMarkers = Failures
        /\ pc \in {"clean", "delete", "stats", "done"} => Failures = 0

\* the patch datasets of the reference features while the pool runs
FeaturePatches == { n \in DOMAIN ws : n[1] = "patch" /\ Len(n) = 4 }

\* the reference feature a patch dataset belongs to
PatchRef(n) == SelectSeq(ws[ref], LAMBDA x : Cat(x.cat) = n[3])

\* C4: a sub-feature is merged into the patch dataset of a reference feature
\* only if the angle between the two lines is at most the number that the
\* angle_thres option spells.
C4_MergedWithinThreshold ==
    InFanOut =>
        \A n \in FeaturePatches : \A i \in 1..Len(ws[n]) :
            DegreesLE(new_angle(GetCoeff(PatchRef(n)), GetCoeff(<<ws[n][i]>>)),
                      int(options.angle_thres))

\* both input datasets (and the mask, when one is named) are in the workspace
InputsFound ==
    /\ Exists(ws0, options.osm)
    /\ Exists(ws0, options.ref)
    /\ Len(options.roi) > 0 => Exists(ws0, User(options.roi))

GeometryCmds == {"v.buffer", "v.overlay", "v.split", "v.generalize",
                 "v.build.polylines", "v.net.centrality", "v.extract",
                 "v.select", "v.edit", "v.patch", "g.copy"}

ZeroAbort(m) ==
    /\ pc = "fatal"
    /\ msg = m
    /\ processid # Unbound
    /\ <<"g.remove", <<processid>>>> \in issued
    /\ report = <<>>
    /\ \A c \in issued : c[1] \notin GeometryCmds

\* C5: in each script, with both inputs present and a reference (resp. OSM)
\* dataset of total length 0, the run ends in the fatal abort "No reference
\* data for comparison" (resp. "No OSM data for comparison"), after issuing
\* the removal of the temporaries named with the process id, without a report
\* and without any buffer or overlay step.
C5_ZeroLengthAborts ==
    (Terminal /\ InputsFound) =>
        /\ length(ws0, options.ref) = 0 =>
              ZeroAbort(<<"No reference data for comparison">>)
        /\ (length(ws0, options.ref) # 0 /\ length(ws0, options.osm) = 0) =>
              ZeroAbort(<<"No OSM data for comparison">>)


\* an input dataset named on the command line is not in the workspace
OsmMissing == ~Exists(ws0, options.osm)
RefMissing == ~Exists(ws0, options.ref)
RoiMissing == script = "precomp" /\ Len(options.roi) > 0
              /\ ~Exists(ws0, User(options.roi))
InputMissing == OsmMissing \/ RefMissing \/ RoiMissing

\* the first of osm, ref, roi that is missing
FirstMissing == IF OsmMissing THEN options.osm
                ELSE IF RefMissing THEN options.ref
                ELSE User(options.roi)

\* C6: when the OSM dataset, the reference dataset or (precomp) a named roi
\* mask is not in the workspace, main ends with the fatal error "Vector map
\* <name> not found" before any external command is issued and before any
\* temporary name is made; the workspace is unchanged.
C6_MissingInputAbortsFirst ==
    InputMissing =>
        /\ pc \in {"check_osm", "check_ref", "check_roi", "fatal"}
        /\ issued = {}
        /\ ws = ws0
        /\ processid = Unbound
        /\ report = <<>>
        /\ pc = "fatal" => msg = NotFound(FirstMissing)

\* C6 witness: precomp aborted on the missing roi mask, both others present
C6_Witness ==
    /\ script = "precomp" /\ pc = "fatal"
    /\ ~OsmMissing /\ ~RefMissing /\ RoiMissing
    /\ msg = NotFound(User("roi"))

\* the statistics table as the buffers option asks for it
WidthAsked(i) == float(options.buffers[i])

\* C7: on a successful run of v.osm.precomp the report is: REF length, OSM
\* length, REF-OSM difference with percentage, an empty line, the header,
\* then one row of nine fields per buffer width, in the order given, each
\* starting with its width; GetStat was called once per width in that order.
C7_ReportLayout ==
    (script = "precomp" /\ pc = "done") =>
        /\ Len(report) = 5 + Len(options.buffers)
        /\ report[1] = <<"REF length", s_ref>>
        /\ report[2] = <<"OSM length", s_osm>>
        /\ Len(report[3]) = 3 /\ report[3][1] = "REF-OSM difference"
        /\ report[3][2] = s_ref - s_osm
        /\ report[4] = <<>>
        /\ report[5] = Header
        /\ \A i \in 1..Len(options.buffers) :
              /\ Len(report[5 + i]) = 9
              /\ report[5 + i][1] = WidthAsked(i)
        /\ Len(calls) = Len(options.buffers)
        /\ \A i \in 1..Len(options.buffers) : calls[i] = WidthAsked(i)

\* C7 witness: a finished run over at least two different widths, the larger first
C7_Witness ==
    /\ script = "precomp" /\ pc = "done"
    /\ Len(options.buffers) >= 2
    /\ options.buffers[1].val > options.buffers[2].val
    /\ Len(report) = 5 + Len(options.buffers)

\* the datasets in the workspace that the run did not find there
Created == DOMAIN ws \ DOMAIN ws0

\* C8: after a successful run every dataset made under a temporary name is
\* gone: precomp leaves the workspace as it found it, preproc leaves it plus
\* the output map; and in precomp no dataset of a GetStat call is left when
\* the next buffer width is taken.
C8_TemporariesRemoved ==
    /\ (script = "precomp" /\ pc = "done") => ws = ws0
    /\ (script = "preproc" /\ pc \in {"stats", "done"}) =>
          /\ Created = {options.output}
          /\ Drop(ws, {options.output}) = ws0
    /\ (script = "precomp" /\ pc = "stat") =>
          /\ Created \subseteq {Tmp("ref_roi", processid), Tmp("osm_roi", processid)}
          /\ Drop(ws, Created) = ws0

\* C8 witness: preproc finished after two features were processed by workers
C8_Witness ==
    /\ script = "preproc" /\ pc = "done"
    /\ Len(list_feature) = 2
    /\ \A i \in 1..2 : handled[i] = 1
    /\ Exists(ws, options.output)

\* the process id of the i-th GetStat call: main reads the clock first
StatPid(i) == TimeStr(i + 1)

\* a length measured by length(): 0 and no v.to.db query for a dataset
\* without features, else the sum of the feature lengths after the query
Measured(name, content, value) ==
    /\ <<"v.info", name>> \in issued
    /\ IF Len(content) = 0
       THEN value = 0 /\ <<"v.to.db", name>> \notin issued
       ELSE value = SumLen(content) /\ <<"v.to.db", name>> \in issued

\* C9: length(data) answers 0 without the per-feature length query for a
\* dataset without features and the sum of the feature lengths otherwise; a
\* buffer width whose in- or out-overlay is empty gets 0 in its row, the row
\* is written and the run goes on with the remaining widths.
C9_EmptyOverlayIsZero ==
    script = "precomp" =>
        /\ pc \in {"zero_ref", "zero_osm", "mask", "stat", "remove", "done"} =>
              /\ Measured(options.ref, ws0[options.ref], s_ref)
              /\ Measured(options.osm, ws0[options.osm], s_osm)
        /\ pc \in {"stat", "remove"} =>
              \A i \in 1..Len(rows) :
                  LET b == rows[i].buff.val IN
                  /\ Measured(Tmp("ref_in", StatPid(i)),
                              OverlayIn(ws[ref], ws[osm], b), rows[i].ref_in)
                  /\ Measured(Tmp("ref_out", StatPid(i)),
                              OverlayOut(ws[ref], ws[osm], b), rows[i].ref_out)
                  /\ Measured(Tmp("osm_in", StatPid(i)),
                              OverlayIn(ws[osm], ws[ref], b), rows[i].osm_in)
                  /\ Measured(Tmp("osm_out", StatPid(i)),
                              OverlayOut(ws[osm], ws[ref], b), rows[i].osm_out)
        /\ pc = "done" =>
              /\ Len(rows) = Len(options.buffers)
              /\ \A i \in 1..Len(rows) : report[5 + i] = RowLine(rows[i])

\* C9 witness: a finished run whose first width found nothing of the
\* reference dataset inside the buffer, and whose second width did
C9_Witness ==
    /\ script = "precomp" /\ pc = "done"
    /\ Len(rows) = 2
    /\ rows[1].ref_in = 0 /\ rows[1].ref_out > 0
    /\ rows[2].ref_in > 0
    /\ report[6][6] = 0

\* main has joined every worker
PoolJoined == script = "preproc"
              /\ pc \in {"collect", "clean", "delete", "stats", "done", "returned"}

\* C10: each dispatched feature id is taken by exactly one worker and
\* processed exactly once, the sentinels are put after all feature ids, each
\* worker consumes exactly one sentinel and takes nothing afterwards, and the
\* input queue never holds more than one item.
C10_ExactlyOnce ==
    (script = "preproc" /\ wpc # <<>>) =>
        /\ Len(q_in) <= 1
        /\ \A i \in DOMAIN handled : handled[i] <= 1
        /\ \A w \in DOMAIN eaten : eaten[w] <= 1
        /\ (q_in # <<>> /\ IsNone(q_in[1])) => sent > Len(list_feature)
        /\ \A w \in DOMAIN wpc : wpc[w] = "exit" => eaten[w] = 1
        /\ PoolJoined =>
              /\ \A i \in DOMAIN handled : handled[i] = 1
              /\ \A w \in DOMAIN eaten : eaten[w] = 1

\* the same statement for the runs in which no call of AngulatComparison raised
C10_ExactlyOnceWithoutFailure == NoWorkerDied => C10_ExactlyOnce

\* the angular coefficient of reference feature f, line 151
RefCoeff(f) == GetCoeff(Extract(ws[ref], f))

\* the angular coefficient of a sub-feature of direction dir, line 159
SubCoeff(dir) == GetCoeff(<<SubFeature(1, dir)>>)

\* C11: the angle computation of line 162 is total: for every pair of
\* angular coefficients GetCoeff can return for a reference feature a worker
\* has taken and a sub-feature the overlay can deliver, perpendicular lines
\* and the stand-in for vertical lines included, the division does not raise
\* and the angle lies between 0 and 90 degrees, so no worker ends inside the
\* comparison.
C11_AngleIsTotal ==
    script = "preproc" =>
        /\ NoWorkerDied
        /\ \A w \in DOMAIN wpc : wpc[w] = "run" =>
              \A dir \in SubDirs :
                  LET m_ref == RefCoeff(wf[w][1])
                      m_osm == SubCoeff(dir)
                  IN /\ ~AngleRaises(m_ref, m_osm)
                     /\ ~Negative(new_angle(m_ref, m_osm).num)
                     /\ DegreesLE(new_angle(m_ref, m_osm), 90)

\* the two percentages of a row add up to 100, up to the rounding of each to
\* one decimal (percentages are kept in tenths)
SumsTo100(p_in, p_out) == p_in + p_out \in {999, 1000, 1001}

\* C12: in precomp the IN and OUT percentages of every row are taken against
\* the total length of the dataset GetStat overlaid for that row (the
\* roi-clipped one when a mask is given), so the two percentages of a dataset
\* sum to 100 whenever its in-length plus out-length is the length of the
\* overlaid dataset.
C12_PercentagesOfOverlaid ==
    (script = "precomp" /\ pc = "stat") =>
        \A i \in 1..Len(rows) :
            LET tot_ref == length(ws, ref)
                tot_osm == length(ws, osm)
            IN /\ (tot_ref > 0 /\ rows[i].ref_in + rows[i].ref_out = tot_ref) =>
                     /\ rows[i].var_ref_in = Pct(rows[i].ref_in, tot_ref)
                     /\ rows[i].var_ref_out = Pct(rows[i].ref_out, tot_ref)
                     /\ SumsTo100(rows[i].var_ref_in, rows[i].var_ref_out)
               /\ (tot_osm > 0 /\ rows[i].osm_in + rows[i].osm_out = tot_osm) =>
                     /\ rows[i].var_osm_in = Pct(rows[i].osm_in, tot_osm)
                     /\ rows[i].var_osm_out = Pct(rows[i].osm_out, tot_osm)
                     /\ SumsTo100(rows[i].var_osm_in, rows[i].var_osm_out)

\* the same statement for the runs without a roi mask
C12_PercentagesWithoutMask == Len(options.roi) = 0 => C12_PercentagesOfOverlaid

\* the patch datasets this run made, the final one apart
OwnPatches == { n \in ListPatch(ws) :
                  Contains(n, processid) /\ n # finalName(processid) }

\* every line of the dataset comes from a patch dataset of this run
FromOwnPatches(content) ==
    /\ Len(content) = Len(PatchAll(ws, OwnPatches))
    /\ \A i \in 1..Len(content) :
          \E n \in OwnPatches : \E j \in 1..Len(ws[n]) : ws[n][j] = content[i]

\* C13: the final merge of preproc takes only patch datasets this run made:
\* whatever the workspace held before, a dataset of another run or of the
\* user whose name starts with "patch" included, the final patch and the
\* output map hold nothing but the lines of this run's patch datasets.
C13_OnlyOwnPatchesMerged ==
    (script = "preproc" /\ pc = "delete") =>
        /\ FromOwnPatches(ws[finalName(processid)])
        /\ FromOwnPatches(ws[options.output])

\* the same statement for a workspace without a foreign patch dataset
C13_OnlyOwnPatchesWithoutForeign ==
    ~Exists(ws0, ForeignPatch) => C13_OnlyOwnPatchesMerged

\* a dataset name AngulatComparison builds for feature f, lines 119-125
NamedFor(n, f) == /\ Len(n) >= 3
                  /\ n[1] \in {"fdata", "fbuffer", "odata", "patch"}
                  /\ n[2] = processid
                  /\ n[3] = Cat(f)

\* the patch datasets of feature f in workspace w
PatchesOf(w, f) == { n \in DOMAIN w : NamedFor(n, f) /\ n[1] = "patch" }

\* the sub-features for which the test of line 163 came out true
Passed(m_ref, subs) ==
    SelectSeq(subs, LAMBDA x : PyLE(new_angle(m_ref, GetCoeff(<<x>>)),
                                    options.angle_thres))

\* z when the loop of lines 154-177 ends: the last sub-feature that passed
LastPassed(m_ref, subs) ==
    IF Len(Passed(m_ref, subs)) = 0 THEN 0
    ELSE Passed(m_ref, subs)[Len(Passed(m_ref, subs))].cat

\* what a call of AngulatComparison(f) that returns leaves of workspace w
ReturnsClean(w, f, subs) ==
    LET res == AngulatComparison(w, f, processid, ref, subs, options.angle_thres)
        m_ref == GetCoeff(Extract(w[ref], f))
        only == patchName(processid, f, LastPassed(m_ref, subs))
    IN ~res.raised =>
          /\ PatchesOf(res.ws, f) = {only}
          /\ res.ws[only] = Passed(m_ref, subs)
          /\ \A n \in DOMAIN res.ws : NamedFor(n, f) => n = only
          /\ \A n \in DOMAIN w \cup DOMAIN res.ws :
                ~NamedFor(n, f) =>
                    /\ n \in DOMAIN w /\ n \in DOMAIN res.ws
                    /\ res.ws[n] = w[n]

\* C14: a call of AngulatComparison(f) that returns leaves exactly one patch
\* dataset for f (patch_<id>_<f>_0 when nothing was found or nothing passed,
\* else the one named for the last sub-feature that passed), holding exactly
\* the sub-features that passed the test of line 163, and none of f's
\* temporaries; it creates, overwrites and removes no dataset named for
\* another feature, so after the pool every dispatched feature has its one
\* patch dataset.
C14_OnePatchPerFeature ==
    script = "preproc" =>
        /\ \A w \in DOMAIN wpc : wpc[w] = "run" =>
              \A subs \in SubLists : ReturnsClean(ws, wf[w][1], subs)
        /\ (pc \in {"collect", "clean"} /\ NoWorkerDied /\ joined = nproc) =>
              \A i \in 1..Len(list_feature) :
                  /\ Cardinality(PatchesOf(ws, list_feature[i])) = 1
                  /\ \A n \in DOMAIN ws :
                        NamedFor(n, list_feature[i]) => n[1] = "patch"

\* C14 witness: two features went through the pool; the patch dataset of the
\* first is named for a sub-feature and holds two of them, the second found
\* nothing and has the empty copy
C14_Witness ==
    /\ script = "preproc" /\ pc = "clean"
    /\ NoWorkerDied
    /\ Len(list_feature) = 2
    /\ \E sf \in 1..MaxSub :
          /\ PatchesOf(ws, 1) = {patchName(processid, 1, sf)}
          /\ Len(ws[patchName(processid, 1, sf)]) = 2
    /\ PatchesOf(ws, 2) = {patchName(processid, 2, 0)}
    /\ ws[patchName(processid, 2, 0)] = <<>>


=============================================================================
